---- MODULE Spec2Model ----
(***************************************************************************)
(* everywox: ranking of the candidates of the Everything file-name index   *)
(* (search.py, const.py).  A string is a sequence of characters; a         *)
(* character is a one-character string, and a Cyrillic letter is written   *)
(* by its code point ("U+0439").  A float is a fixed-point number in units *)
(* of 1/SCALE, rounded towards zero.                                       *)
(***************************************************************************)
EXTENDS Integers, Sequences, FiniteSets, TLC

VARIABLES
    pc,      \* position of the call: idle, lookup, searched, scored, done, raised
    raw,     \* the argument of lookup
    query,   \* the argument of _lookup (lookup's query after Keyboard.Translate)
    called,  \* whether Everything_QueryW was called
    found,   \* what the Everything index returned, in its order
    order,   \* call_dll_search's result: a dict in insertion order
    scores,  \* precompute_scores' result: a dict in insertion order
    scored,  \* whether precompute_scores ran
    fs,      \* the outcome of path.stat() for every path it was called on
    result,  \* the tuple of Answers lookup returns
    error    \* the exception lookup raises

vars == <<pc, raw, query, called, found, order, scores, scored, fs, result, error>>

-----------------------------------------------------------------------------
(* Bounds of the model. *)

MaxQueryLen == 2
MaxHead == 2
MaxFiller == 15

-----------------------------------------------------------------------------
(* const.py *)

MIN_QUERY_LENGTH == 1
MAX_MISSING_LETTERS == 1
MAX_RESULTS_COUNT == 15

ENABLED_EXTENSIONS ==
    { <<"e", "x", "e">>, <<"b", "a", "t">>, <<"c", "m", "d">>,
      <<"l", "n", "k">>, <<"c", "h", "m">>, <<"c", "p", "l">> }

\* the acceptance floor of a score is 0.001 = 1 / RATE_FLOOR_INV
RATE_FLOOR_INV == 1000

\* os.environ["WINDIR"] and os.environ["ALLUSERSPROFILE"] of the modelled machine
WINDIR == <<"C", ":", "\\", "W">>
ALLUSERSPROFILE == <<"C", ":", "\\", "P">>

-----------------------------------------------------------------------------
(* Characters and strings. *)

ASCII_UPPER ==
    <<"A", "B", "C", "D", "E", "F", "G", "H", "I", "J", "K", "L", "M",
      "N", "O", "P", "Q", "R", "S", "T", "U", "V", "W", "X", "Y", "Z">>

ASCII_LOWER ==
    <<"a", "b", "c", "d", "e", "f", "g", "h", "i", "j", "k", "l", "m",
      "n", "o", "p", "q", "r", "s", "t", "u", "v", "w", "x", "y", "z">>

ASCII_DIGITS == <<"0", "1", "2", "3", "4", "5", "6", "7", "8", "9">>

\* Keyboard.RU before .lower(): the capital letters
RU_UPPER ==
    <<"U+0419", "U+0426", "U+0423", "U+041A", "U+0415", "U+041D", "U+0413",
      "U+0428", "U+0429", "U+0417", "U+0424", "U+042B", "U+0412", "U+0410",
      "U+041F", "U+0420", "U+041E", "U+041B", "U+0414", "U+042F", "U+0427",
      "U+0421", "U+041C", "U+0418", "U+0422", "U+042C">>

\* Keyboard.RU: the same letters, lowercase
RU ==
    <<"U+0439", "U+0446", "U+0443", "U+043A", "U+0435", "U+043D", "U+0433",
      "U+0448", "U+0449", "U+0437", "U+0444", "U+044B", "U+0432", "U+0430",
      "U+043F", "U+0440", "U+043E", "U+043B", "U+0434", "U+044F", "U+0447",
      "U+0441", "U+043C", "U+0438", "U+0442", "U+044C">>

\* Keyboard.EN
EN ==
    <<"q", "w", "e", "r", "t", "y", "u", "i", "o", "p", "a", "s", "d",
      "f", "g", "h", "j", "k", "l", "z", "x", "c", "v", "b", "n", "m">>

Range(s) == { s[i] : i \in 1..Len(s) }

IndexOf(s, c) == CHOOSE i \in 1..Len(s) : s[i] = c

Max(S) == CHOOSE x \in S : \A y \in S : y <= x

Min(S) == CHOOSE x \in S : \A y \in S : x <= y

\* the lowercase letter of every capital letter
LOWERCASE ==
    [c \in Range(ASCII_UPPER) \cup Range(RU_UPPER) |->
        IF c \in Range(ASCII_UPPER) THEN ASCII_LOWER[IndexOf(ASCII_UPPER, c)]
        ELSE RU[IndexOf(RU_UPPER, c)]]

\* the characters of Keyboard.RU, and those the case-insensitive patterns match
RU_CHARS == Range(RU)

RU_ANY_CASE == Range(RU) \cup Range(RU_UPPER)

\* str.lower() of one character
Lower(c) == IF c \in DOMAIN LOWERCASE THEN LOWERCASE[c] ELSE c

\* str.lower()
str_lower(s) == [i \in 1..Len(s) |-> Lower(s[i])]

\* the characters \s matches and str.strip() removes
WHITESPACE == {" ", "\t"}

IsSpace(c) == c \in WHITESPACE

\* str.startswith
startswith(s, prefix) ==
    /\ Len(prefix) <= Len(s)
    /\ SubSeq(s, 1, Len(prefix)) = prefix

\* the first position from i on, and the last position up to i, of a
\* character of s that is in chars (beyond the string when there is none)
RECURSIVE first_of(_, _, _)
first_of(s, chars, i) ==
    IF i > Len(s) \/ s[i] \in chars THEN i ELSE first_of(s, chars, i + 1)

RECURSIVE last_of(_, _, _)
last_of(s, chars, i) ==
    IF i = 0 \/ s[i] \in chars THEN i ELSE last_of(s, chars, i - 1)

\* the same for a character that is not in chars
RECURSIVE first_not_of(_, _, _)
first_not_of(s, chars, i) ==
    IF i > Len(s) \/ s[i] \notin chars THEN i ELSE first_not_of(s, chars, i + 1)

RECURSIVE last_not_of(_, _, _)
last_not_of(s, chars, i) ==
    IF i = 0 \/ s[i] \notin chars THEN i ELSE last_not_of(s, chars, i - 1)

\* str.strip()
strip(s) == SubSeq(s, first_not_of(s, WHITESPACE, 1), last_not_of(s, WHITESPACE, Len(s)))

\* re.sub(r'(\s+)', ' ', s): every run of whitespace becomes one space
RECURSIVE collapse_spaces(_)
collapse_spaces(s) ==
    IF s = <<>> THEN <<>>
    ELSE IF IsSpace(s[1])
         THEN IF Len(s) > 1 /\ IsSpace(s[2])
              THEN collapse_spaces(Tail(s))
              ELSE <<" ">> \o collapse_spaces(Tail(s))
         ELSE <<s[1]>> \o collapse_spaces(Tail(s))

\* the query as call_dll_search normalizes it
normalize(q) == collapse_spaces(str_lower(strip(q)))

-----------------------------------------------------------------------------
(* const.Keyboard *)

\* Keyboard.WORD.match: '(?ui)^([RU]+)$', case-insensitive
IsCyrillic(q) ==
    /\ q # <<>>
    /\ \A i \in 1..Len(q) : q[i] \in RU_ANY_CASE

\* Keyboard.MAP[x.group(1)] raises KeyError for a character that CHAR matches
\* and that is no key of MAP
TranslateRaises(q) ==
    \E i \in 1..Len(q) : q[i] \in RU_ANY_CASE /\ q[i] \notin RU_CHARS

\* Keyboard.Translate: every character CHAR matches is replaced by MAP[char]
Translate(q) ==
    [i \in 1..Len(q) |->
        IF q[i] \in RU_CHARS THEN EN[IndexOf(RU, q[i])] ELSE q[i]]

-----------------------------------------------------------------------------
(* The candidate filter. *)

WINDOWS_SXS_REPOSITORY ==
    str_lower(WINDIR \o <<"\\", "W", "i", "n", "S", "x", "S">>)

WINDOWS_CONTAINERS_LAYERS ==
    str_lower(ALLUSERSPROFILE \o
        <<"\\", "M", "i", "c", "r", "o", "s", "o", "f", "t",
          "\\", "W", "i", "n", "d", "o", "w", "s",
          "\\", "C", "o", "n", "t", "a", "i", "n", "e", "r", "s",
          "\\", "L", "a", "y", "e", "r", "s">>)

\* the characters collected from the end of the path up to the first of
\* '.', '\' and '/'; '' when the whole path was collected
get_extension(path) ==
    LET stop == last_of(path, {".", "\\", "/"}, Len(path))
    IN  IF stop = 0 THEN <<>>
        ELSE str_lower(SubSeq(path, stop + 1, Len(path)))

its_ignored_path(path) ==
    LET lowered == str_lower(path)
    IN  \/ startswith(lowered, WINDOWS_SXS_REPOSITORY)
        \/ startswith(lowered, WINDOWS_CONTAINERS_LAYERS)
        \/ get_extension(lowered) \notin ENABLED_EXTENSIONS

\* os.path.basename of a Windows path
basename(path) ==
    LET sep == last_of(path, {"\\", "/"}, Len(path))
        from == IF sep # 0 THEN sep + 1
                ELSE IF Len(path) >= 2 /\ path[2] = ":" THEN 3 ELSE 1
    IN  SubSeq(path, from, Len(path))

\* the keys of a dict, in insertion order
Keys(d) == [i \in 1..Len(d) |-> d[i].word]

\* result[base].append((path, runs)) on a defaultdict(list)
dict_append(d, base, item) ==
    IF \E i \in 1..Len(d) : d[i].word = base
    THEN [i \in 1..Len(d) |->
            IF d[i].word = base
            THEN [word |-> base, items |-> Append(d[i].items, item)]
            ELSE d[i]]
    ELSE Append(d, [word |-> base, items |-> <<item>>])

\* the loop of call_dll_search over the results of the index
RECURSIVE collect_results(_, _)
collect_results(rows, d) ==
    IF rows = <<>> THEN d
    ELSE LET row == rows[1]
         IN  IF its_ignored_path(row.path)
             THEN collect_results(Tail(rows), d)
             ELSE collect_results(Tail(rows),
                    dict_append(d, str_lower(basename(row.path)), row))

-----------------------------------------------------------------------------
(* Fixed-point arithmetic: a float x is the integer x * SCALE, rounded     *)
(* towards zero.  One unit is the acceptance floor of a score.             *)

SCALE == RATE_FLOOR_INV

RECURSIVE isqrt_between(_, _, _)
isqrt_between(n, lo, hi) ==
    IF lo >= hi THEN lo
    ELSE LET mid == (lo + hi + 1) \div 2
         IN  IF mid * mid <= n
             THEN isqrt_between(n, mid, hi)
             ELSE isqrt_between(n, lo, mid - 1)

\* math.sqrt
fsqrt(x) == isqrt_between(x * SCALE, 0, 46340)

fmul(x, y) == (x * y) \div SCALE

fdiv(x, y) == (x * SCALE) \div y

-----------------------------------------------------------------------------
(* The memoized metrics of search.py. *)

Min2(x, y) == IF x <= y THEN x ELSE y

\* jellyfish.damerau_levenshtein_distance: insertions, deletions,
\* substitutions and transpositions of adjacent characters
RECURSIVE dl_prefix(_, _, _, _)
dl_prefix(x, y, i, j) ==
    IF i = 0 THEN j
    ELSE IF j = 0 THEN i
    ELSE LET cost == IF x[i] = y[j] THEN 0 ELSE 1
             edit == Min2(Min2(dl_prefix(x, y, i - 1, j) + 1,
                               dl_prefix(x, y, i, j - 1) + 1),
                          dl_prefix(x, y, i - 1, j - 1) + cost)
             ks == { k \in 1..(i - 1) : x[k] = y[j] }
             ls == { l \in 1..(j - 1) : y[l] = x[i] }
         IN  IF ks = {} \/ ls = {} THEN edit
             ELSE Min2(edit,
                       dl_prefix(x, y, Max(ks) - 1, Max(ls) - 1)
                         + (i - Max(ks) - 1) + 1 + (j - Max(ls) - 1))

distance(x, y) == dl_prefix(x, y, Len(x), Len(y))

\* distance(x, y) * distance_relative(x, y), where distance_relative is
\* distance / min(len(x), len(y)) and .0 on a ZeroDivisionError
distance_times_relative(x, y) ==
    LET d == distance(x, y)
        shortest == Min2(Len(x), Len(y))
    IN  IF shortest = 0 THEN 0 ELSE (d * d * SCALE) \div shortest

\* unique(x), joined: the distinct characters in the order they first occur
get_used_chars(x) ==
    LET first == { i \in 1..Len(x) : \A k \in 1..(i - 1) : x[k] # x[i] }
    IN  SelectSeq([i \in 1..Len(x) |-> IF i \in first THEN x[i] ELSE ""],
                  LAMBDA c : c # "")

count_missing_letters(term, base) ==
    Cardinality(Range(term)) - Cardinality(Range(term) \cap Range(base))

same_start_bonus(term, base) ==
    LET differ == { i \in 1..Len(term) : i > Len(base) \/ term[i] # base[i] }
    IN  IF differ = {} THEN Len(term) ELSE Min(differ) - 1

\* (len(set_term) - len(common)) / len(term)
count_missing_chars_count(term, base) ==
    (count_missing_letters(term, base) * SCALE) \div Len(term)

\* the greedy left-to-right scan of subsequence_match: the positions of stem
\* (from 0) that match the characters of query in order
RECURSIVE match_positions(_, _, _, _)
match_positions(q, stem, query_idx, text_idx) ==
    IF text_idx > Len(stem) THEN <<>>
    ELSE IF query_idx <= Len(q) /\ stem[text_idx] = q[query_idx]
         THEN <<text_idx - 1>> \o match_positions(q, stem, query_idx + 1, text_idx + 1)
         ELSE match_positions(q, stem, query_idx, text_idx + 1)

subsequence_match(q, stem) ==
    IF q = <<>> THEN 0
    ELSE LET pos == match_positions(q, stem, 1, 1)
             n == Len(pos)
         IN  IF n # Len(q) THEN 0
             ELSE LET density ==
                          IF n < 2 THEN SCALE
                          ELSE (SCALE * 10 * (n - 1))
                                 \div (10 * (n - 1) + (pos[n] - pos[1]))
                      start_bonus == IF pos[1] = 0 THEN (12 * SCALE) \div 10 ELSE SCALE
                      length_ratio == (Len(q) * SCALE) \div Len(stem)
                  IN  fmul(fmul(density, start_bonus),
                           SCALE \div 2 + length_ratio \div 2)

-----------------------------------------------------------------------------
(* fuzzywuzzy: process.extract with scorer fuzz.token_sort_ratio. *)

IsAscii(c) == c \notin RU_ANY_CASE

\* the characters the regular expression \w matches
WORD_CHARS ==
    Range(ASCII_LOWER) \cup Range(ASCII_UPPER) \cup Range(ASCII_DIGITS)
        \cup {"_"} \cup RU_ANY_CASE

IsWordChar(c) == c \in WORD_CHARS

\* utils.full_process(s, force_ascii=True): non-ASCII characters removed,
\* every other character that is no letter or digit replaced by a space,
\* lowercased, stripped
full_process(s) ==
    LET ascii == SelectSeq(s, IsAscii)
    IN  strip(str_lower([i \in 1..Len(ascii) |->
                IF IsWordChar(ascii[i]) THEN ascii[i] ELSE " "]))

\* str.split(): the words between the runs of whitespace
RECURSIVE split(_)
split(s) ==
    LET t == strip(s)
        space == first_of(t, WHITESPACE, 1)
    IN  IF t = <<>> THEN <<>>
        ELSE IF space > Len(t) THEN <<t>>
        ELSE <<SubSeq(t, 1, space - 1)>> \o split(SubSeq(t, space + 1, Len(t)))

\* the order of the code points of the characters full_process leaves
CODE_POINT_ORDER == ASCII_DIGITS \o <<"_">> \o ASCII_LOWER

\* s < t for strings, as Python compares them
RECURSIVE str_less(_, _)
str_less(s, t) ==
    IF t = <<>> THEN FALSE
    ELSE IF s = <<>> THEN TRUE
    ELSE IF s[1] = t[1] THEN str_less(Tail(s), Tail(t))
    ELSE IndexOf(CODE_POINT_ORDER, s[1]) < IndexOf(CODE_POINT_ORDER, t[1])

\* sorted(tokens)
RECURSIVE sorted_tokens(_)
sorted_tokens(tokens) ==
    IF tokens = <<>> THEN <<>>
    ELSE LET least == CHOOSE i \in 1..Len(tokens) :
                         \A k \in 1..Len(tokens) : ~str_less(tokens[k], tokens[i])
         IN  <<tokens[least]>>
               \o sorted_tokens([k \in 1..(Len(tokens) - 1) |->
                                   IF k < least THEN tokens[k] ELSE tokens[k + 1]])

\* u" ".join(tokens)
RECURSIVE join(_)
join(tokens) ==
    IF tokens = <<>> THEN <<>>
    ELSE IF Len(tokens) = 1 THEN tokens[1]
    ELSE tokens[1] \o <<" ">> \o join(Tail(tokens))

\* fuzz._process_and_sort
process_and_sort(s) == join(sorted_tokens(split(full_process(s))))

\* the length of a longest common subsequence of two strings
RECURSIVE lcs(_, _, _, _)
lcs(s, t, i, j) ==
    IF i = 0 \/ j = 0 THEN 0
    ELSE IF s[i] = t[j] THEN lcs(s, t, i - 1, j - 1) + 1
    ELSE LET a == lcs(s, t, i - 1, j)
             b == lcs(s, t, i, j - 1)
         IN  IF a >= b THEN a ELSE b

\* int(round(x)) of the fraction num / den: halves go to the even neighbour
intr(num, den) ==
    LET q == num \div den
        r == num % den
    IN  IF 2 * r > den THEN q + 1
        ELSE IF 2 * r < den THEN q
        ELSE IF q % 2 = 0 THEN q ELSE q + 1

\* fuzz.ratio: 100 for equal strings, 0 when one is empty, else
\* 100 * 2 * M / T with M the matched characters and T the two lengths
fuzz_ratio(s1, s2) ==
    IF s1 = s2 THEN 100
    ELSE IF s1 = <<>> \/ s2 = <<>> THEN 0
    ELSE intr(200 * lcs(s1, s2, Len(s1), Len(s2)), Len(s1) + Len(s2))

token_sort_ratio(s1, s2) == fuzz_ratio(process_and_sort(s1), process_and_sort(s2))

-----------------------------------------------------------------------------
(* precompute_scores *)

Abs(x) == IF x < 0 THEN -x ELSE x

\* sort_by_length_delta, the key of sorted(order, key=...)
sort_by_length_delta(q, x) == Abs(Len(q) - Len(x))

\* sorted(words, key=sort_by_length_delta): a stable sort
RECURSIVE sorted_by_delta(_, _, _)
sorted_by_delta(q, words, deltas) ==
    IF deltas = {} THEN <<>>
    ELSE LET least == Min(deltas)
         IN  SelectSeq(words, LAMBDA w : sort_by_length_delta(q, w) = least)
               \o sorted_by_delta(q, words, deltas \ {least})

scoring_order(q, d) ==
    sorted_by_delta(q, Keys(d),
                    { sort_by_length_delta(q, d[i].word) : i \in 1..Len(d) })

\* the stem of a word: word[:-len(ext) - 1] when the word has an extension
stem_of(word) ==
    LET ext == get_extension(word)
    IN  IF ext # <<>> THEN SubSeq(word, 1, Len(word) - Len(ext) - 1) ELSE word

\* whether the missing-letter gate lets the word through
passes_gate(q, word) ==
    count_missing_letters(q, stem_of(word)) <= MAX_MISSING_LETTERS

\* the rate of a stem before the token ratio is applied
rate_before_ratio(q, stem) ==
    LET chars == get_used_chars(q)
        base == get_used_chars(stem)
        anchor == IF stem = q THEN 20 * SCALE
                  ELSE IF startswith(stem, q) THEN 5 * SCALE
                  ELSE SCALE
        by_match == fsqrt(SCALE + distance_times_relative(q, stem))
        by_chars == fsqrt(SCALE + distance_times_relative(chars, base))
        r1 == fdiv(anchor, by_match + SCALE)
        r2 == fdiv(r1, by_chars + SCALE)
        r3 == fmul(r2, subsequence_match(q, stem) + subsequence_match(chars, base))
        r4 == fdiv(r3, fmul(by_chars, by_match))
        r5 == fdiv(r4, fsqrt(SCALE + SCALE * distance(q, SubSeq(stem, 1, Min2(Len(q), Len(stem))))))
        r6 == fdiv(r5, fsqrt(SCALE + count_missing_chars_count(q, stem)))
    IN  r6 \div (1 + same_start_bonus(q, stem))

\* rate /= float(ratio) / 100, for a ratio that is not 0
apply_ratio(rate, ratio) == fdiv(rate, (ratio * SCALE) \div 100)

\* the loop of precompute_scores; a ratio of 0 raises ZeroDivisionError
RECURSIVE score_words(_, _, _)
score_words(q, words, acc) ==
    IF words = <<>> THEN [raised |-> FALSE, scores |-> acc]
    ELSE LET word == words[1]
             ratio == token_sort_ratio(q, word)
             rate == apply_ratio(rate_before_ratio(q, stem_of(word)), ratio)
         IN  IF ~passes_gate(q, word) THEN score_words(q, Tail(words), acc)
             ELSE IF ratio = 0 THEN [raised |-> TRUE, scores |-> acc]
             ELSE IF rate * RATE_FLOOR_INV <= SCALE THEN score_words(q, Tail(words), acc)
             ELSE score_words(q, Tail(words),
                              Append(acc, [word |-> word, score |-> rate]))

precompute_scores(q, d) == score_words(q, scoring_order(q, d), <<>>)

-----------------------------------------------------------------------------
(* postprocess_scoring *)

\* path.stat() failed
NoStat == [ok |-> FALSE, ino |-> 0, dev |-> 0]

\* order[stem]
items_of(d, word) == d[CHOOSE i \in 1..Len(d) : d[i].word = word].items

\* loops that would run over every name of the index answer, scored or not
\* (an unscored name with score 0): the missing-letter gate no longer keeps
\* a name out of the result
every_candidate(d, sc) ==
    LET score_of(word) ==
            IF \E j \in 1..Len(sc) : sc[j].word = word
            THEN sc[CHOOSE j \in 1..Len(sc) : sc[j].word = word].score
            ELSE 0
        rows(i) == [k \in 1..Len(d[i].items) |->
                      [word |-> d[i].word, score |-> score_of(d[i].word),
                       path |-> d[i].items[k].path, runs |-> d[i].items[k].runs]]
        from[i \in 1..(Len(d) + 1)] ==
            IF i > Len(d) THEN <<>> ELSE rows(i) \o from[i + 1]
    IN  from[1]

\* the two nested loops: every (full, runs) of every scored name, in order
RECURSIVE candidates(_, _)
candidates(d, sc) ==
    IF sc = <<>> THEN <<>>
    ELSE LET items == items_of(d, sc[1].word)
         IN  [i \in 1..Len(items) |->
                [word |-> sc[1].word, score |-> sc[1].score,
                 path |-> items[i].path, runs |-> items[i].runs]]
               \o candidates(d, Tail(sc))

\* a key that would tell files apart by their path, not by their identity
file_key_by_path(full, st) == <<full>>

\* key = stat.st_ino, stat.st_dev
file_key(full, st) == <<st.ino, st.dev>>

\* sqrt(runs + 1) * sqrt(score + 1), kept as its square (runs + 1) * (score + 1):
\* the square orders the weights as the weights themselves
weight(runs, score) == (runs + 1) * (score + SCALE)

\* mapping, runstat and scoring after the loops: one group per key, in the
\* order the keys were first seen
RECURSIVE group_by_key(_, _, _)
group_by_key(cands, st, groups) ==
    IF cands = <<>> THEN groups
    ELSE LET c == cands[1]
             key == file_key(c.path, st[c.path])
         IN  IF ~st[c.path].ok THEN group_by_key(Tail(cands), st, groups)
             ELSE IF \E g \in 1..Len(groups) : groups[g].key = key
             THEN group_by_key(Tail(cands), st,
                    [g \in 1..Len(groups) |->
                        IF groups[g].key = key
                        THEN [groups[g] EXCEPT !.paths = Append(@, c.path)]
                        ELSE groups[g]])
             ELSE group_by_key(Tail(cands), st,
                    Append(groups,
                           [key |-> key, paths |-> <<c.path>>, runs |-> c.runs,
                            score |-> weight(c.runs, c.score)]))

\* a sort that would put a group before the groups of equal score inserted
\* earlier
RECURSIVE sorted_latest_first(_, _)
sorted_latest_first(groups, done) ==
    IF groups = <<>> THEN done
    ELSE LET g == groups[1]
             ahead == Cardinality({ i \in 1..Len(done) : done[i].score > g.score })
         IN  sorted_latest_first(Tail(groups),
                                 SubSeq(done, 1, ahead) \o <<g>>
                                   \o SubSeq(done, ahead + 1, Len(done)))

\* sorted(groups, key=score, reverse=True): a stable sort, so groups of equal
\* score keep the order in which they were inserted
RECURSIVE sorted_by_score(_, _)
sorted_by_score(groups, done) ==
    IF groups = <<>> THEN done
    ELSE LET g == groups[1]
             ahead == Cardinality({ i \in 1..Len(done) : done[i].score >= g.score })
         IN  sorted_by_score(Tail(groups),
                             SubSeq(done, 1, ahead) \o <<g>>
                               \o SubSeq(done, ahead + 1, Len(done)))

\* a selection that would not cut the groups at n
most_common_uncut(groups, n) == sorted_by_score(groups, <<>>)

\* Counter(scoring).most_common(n): heapq.nlargest(n, items, key=score), which
\* is sorted(items, key=score, reverse=True)[:n]
most_common(groups, n) ==
    SubSeq(sorted_by_score(groups, <<>>), 1, Min2(n, Len(groups)))

\* sorted(mapping[key], key=len)[0]
RECURSIVE shortest_from(_, _, _)
shortest_from(paths, best, i) ==
    IF i > Len(paths) THEN paths[best]
    ELSE shortest_from(paths, IF Len(paths[i]) < Len(paths[best]) THEN i ELSE best, i + 1)

\* a choice that would show the path discovered first
first_path(paths) == paths[1]

shortest_path(paths) == shortest_from(paths, 1, 2)

\* Path.parent
path_parent(path) ==
    LET sep == last_of(path, {"\\", "/"}, Len(path))
    IN  IF sep = 0 THEN <<".">>
        ELSE IF sep = 3 /\ path[2] = ":" THEN SubSeq(path, 1, 3)
        ELSE SubSeq(path, 1, sep - 1)

\* Path.stem
path_stem(path) ==
    LET name == basename(path)
        dot == last_of(name, {"."}, Len(name))
    IN  IF dot <= 1 \/ dot = Len(name) THEN name
        ELSE SubSeq(name, 1, dot - 1)

Answer(group) ==
    LET path == shortest_path(group.paths)
    IN  [path |-> path, dir |-> path_parent(path), stem |-> path_stem(path),
         runs |-> group.runs, score |-> group.score]

postprocess_scoring(d, sc, st) ==
    LET top == most_common(group_by_key(candidates(d, sc), st, <<>>), MAX_RESULTS_COUNT)
    IN  [i \in 1..Len(top) |-> Answer(top[i])]

-----------------------------------------------------------------------------
(* The world outside: the queries typed, the files the Everything index     *)
(* knows with their run counts, and the file system behind path.stat().     *)

\* two letters, a capital, a space, and the Cyrillic letter on the key of "a"
\* in lower and upper case
QueryAlphabet == {"a", "b", "A", " ", "U+0444", "U+0424"}

Queries == UNION { [1..n -> QueryAlphabet] : n \in 0..MaxQueryLen }

\* files of the index: path and run count
INDEX ==
    << [path |-> <<"C", ":", "\\", "a", "b", ".", "e", "x", "e">>, runs |-> 0],
       [path |-> <<"C", ":", "\\", "_", "d", "\\", "A", "B", ".", "E", "X", "E">>, runs |-> 2],
       [path |-> <<"C", ":", "\\", "a", "b", "b", ".", "b", "a", "t">>, runs |-> 1],
       [path |-> <<"C", ":", "\\", "_", "d", "\\", "e", "x", "e">>, runs |-> 1],
       [path |-> <<"C", ":", "\\", "a", "b", ".", "t", "x", "t">>, runs |-> 3],
       [path |-> <<"C", ":", "\\", "W", "\\", "W", "i", "n", "S", "x", "S", "\\",
                   "a", "b", ".", "e", "x", "e">>, runs |-> 3] >>

\* more files named ab.exe, one per directory C:\0, C:\1, ...
FILLER_DIRS == ASCII_DIGITS \o ASCII_LOWER

Filler(i) ==
    [path |-> <<"C", ":", "\\", FILLER_DIRS[i], "\\", "a", "b", ".", "e", "x", "e">>,
     runs |-> 1 + (i % 2)]

Fillers(n) == [i \in 1..n |-> Filler(i)]

IsInjective(f) == \A i, j \in DOMAIN f : f[i] = f[j] => i = j

\* up to MaxHead distinct files of INDEX in any order
Heads ==
    { [i \in DOMAIN h |-> INDEX[h[i]]] :
        h \in { f \in UNION { [1..n -> 1..Len(INDEX)] : n \in 0..MaxHead } : IsInjective(f) } }

\* what the index may answer: some files of INDEX, then none or all of the
\* files named ab.exe
Found ==
    { h \o Fillers(n) : h \in Heads, n \in {0, MaxFiller} }

FillerPaths == { Filler(i).path : i \in 1..MaxFiller }

\* the files C:\0\ab.exe, C:\1\ab.exe, ... exist and are distinct files
FillerStat(path) ==
    [ok |-> TRUE, ino |-> 10 + IndexOf(FILLER_DIRS, path[4]), dev |-> 0]

\* a file of INDEX is gone or unreadable, or is one of three files (two share
\* the inode number on different devices), or is a hard link of C:\0\ab.exe
HeadStats ==
    { NoStat,
      [ok |-> TRUE, ino |-> 1, dev |-> 0],
      [ok |-> TRUE, ino |-> 1, dev |-> 1],
      [ok |-> TRUE, ino |-> 11, dev |-> 0] }

\* the file systems that may answer the stat calls on the paths
FileSystems(paths) ==
    { [p \in paths |-> IF p \in FillerPaths THEN FillerStat(p) ELSE f[p]] :
        f \in [paths \ FillerPaths -> HeadStats] }

-----------------------------------------------------------------------------
(* The call lookup(query), step by step. *)

Init ==
    /\ pc = "idle"
    /\ raw = <<>>
    /\ query = <<>>
    /\ called = FALSE
    /\ found = <<>>
    /\ order = <<>>
    /\ scores = <<>>
    /\ scored = FALSE
    /\ fs = <<>>
    /\ result = <<>>
    /\ error = "none"

\* lookup: Keyboard.IsCyrillic, Keyboard.Translate, then _lookup
Lookup ==
    /\ pc = "idle"
    /\ \E q \in Queries :
        /\ raw' = q
        /\ IF IsCyrillic(q) /\ TranslateRaises(q)
           THEN /\ pc' = "raised"
                /\ error' = "KeyError"
                /\ query' = q
           ELSE /\ pc' = "lookup"
                /\ error' = error
                /\ query' = IF IsCyrillic(q) THEN Translate(q) ELSE q
    /\ UNCHANGED <<called, found, order, scores, scored, fs, result>>

\* call_dll_search, and _lookup's return of () for an empty order
CallDllSearch ==
    /\ pc = "lookup"
    /\ IF Len(normalize(query)) <= MIN_QUERY_LENGTH
       THEN /\ called' = FALSE
            /\ found' = <<>>
            /\ order' = <<>>
            /\ pc' = "done"
       ELSE \E rows \in Found :
            /\ called' = TRUE
            /\ found' = rows
            /\ order' = collect_results(rows, <<>>)
            /\ pc' = IF order' = <<>> THEN "done" ELSE "searched"
    /\ UNCHANGED <<raw, query, scores, scored, fs, result, error>>

\* precompute_scores(query, order)
PrecomputeScores ==
    /\ pc = "searched"
    /\ LET r == precompute_scores(query, order)
       IN  IF r.raised
           THEN /\ pc' = "raised"
                /\ error' = "ZeroDivisionError"
                /\ UNCHANGED <<scores, scored>>
           ELSE /\ pc' = "scored"
                /\ scores' = r.scores
                /\ scored' = TRUE
                /\ error' = error
    /\ UNCHANGED <<raw, query, called, found, order, fs, result>>

\* postprocess_scoring(order, scores)
PostprocessScoring ==
    /\ pc = "scored"
    /\ \E st \in FileSystems({ c.path : c \in Range(candidates(order, scores)) }) :
        /\ fs' = st
        /\ result' = postprocess_scoring(order, scores, st)
    /\ pc' = "done"
    /\ UNCHANGED <<raw, query, called, found, order, scores, scored, error>>

Next ==
    \/ Lookup
    \/ CallDllSearch
    \/ PrecomputeScores
    \/ PostprocessScoring

Spec == Init /\ [][Next]_vars

-----------------------------------------------------------------------------
(* What the claims speak of, read off the state. *)

\* lookup returned
Returned == pc = "done"

\* the candidates in the order of discovery: the scored names in scoring
\* order, and under a name its files in the order of the index; each with
\* the score of its name
RECURSIVE DiscoveredFrom(_)
DiscoveredFrom(j) ==
    IF j > Len(scores) THEN <<>>
    ELSE LET at == { i \in 1..Len(order) : order[i].word = scores[j].word }
             rows == IF at = {} THEN <<>> ELSE order[Min(at)].items
         IN  [k \in 1..Len(rows) |->
                [path |-> rows[k].path, runs |-> rows[k].runs,
                 score |-> scores[j].score]]
               \o DiscoveredFrom(j + 1)

Discovered == DiscoveredFrom(1)

\* stat() succeeded on the path
Statable(path) == path \in DOMAIN fs /\ fs[path].ok

\* the FileIdentity (st_ino, st_dev) of a path
Identity(path) == <<fs[path].ino, fs[path].dev>>

\* the positions of a scan at which a FileIdentity is discovered
FirstSeen(scan) ==
    { i \in 1..Len(scan) :
        /\ Statable(scan[i].path)
        /\ \A k \in 1..(i - 1) :
              Statable(scan[k].path) => Identity(scan[k].path) # Identity(scan[i].path) }

\* the stat-able paths of a scan that have the FileIdentity found at position i
SamePaths(scan, i) ==
    { scan[k].path : k \in { n \in 1..Len(scan) :
                               /\ Statable(scan[n].path)
                               /\ Identity(scan[n].path) = Identity(scan[i].path) } }

\* the combined weight of the group discovered at position i, squared
GroupWeight(scan, i) == (scan[i].runs + 1) * (scan[i].score + SCALE)

\* the group discovered at i comes before the one discovered at k:
\* the larger weight first, and the earlier discovery among equal weights
Before(scan, i, k) ==
    \/ GroupWeight(scan, i) > GroupWeight(scan, k)
    \/ GroupWeight(scan, i) = GroupWeight(scan, k) /\ i < k

\* the Answers that show the FileIdentity discovered at position i
AnswersOf(scan, i) ==
    { a \in 1..Len(result) :
        Statable(result[a].path) /\ Identity(result[a].path) = Identity(scan[i].path) }

\* the characters of a query that a stem lacks
MissingLetters(q, stem) == { c \in Range(q) : c \notin Range(stem) }

-----------------------------------------------------------------------------
(* C1: no two Answers of one result refer to the same FileIdentity. *)
C1_NoSharedIdentity ==
    Returned =>
        \A a, b \in 1..Len(result) :
            /\ Statable(result[a].path)
            /\ a # b => Identity(result[a].path) # Identity(result[b].path)

\* two stat-able candidates are one file, and the result has several Answers
C1_Witness ==
    /\ Returned
    /\ Len(result) >= 2
    /\ \E p1, p2 \in DOMAIN fs :
          p1 # p2 /\ fs[p1].ok /\ fs[p2].ok /\ Identity(p1) = Identity(p2)

(* C2: the number of Answers is min(MAX_RESULTS_COUNT, G), G the number of *)
(* FileIdentities among the stat-able paths of the scored names.           *)
C2_ResultCount ==
    Returned =>
        LET scan == Discovered
            G == Cardinality({ Identity(scan[i].path) :
                                 i \in { n \in 1..Len(scan) : Statable(scan[n].path) } })
        IN  Len(result) = Min2(MAX_RESULTS_COUNT, G)

\* more identities than MAX_RESULTS_COUNT, and the result is cut
C2_Witness ==
    /\ Returned
    /\ Cardinality(FirstSeen(Discovered)) > MAX_RESULTS_COUNT
    /\ Len(result) = MAX_RESULTS_COUNT

(* C3: no Answer has a stem that lacks more than MAX_MISSING_LETTERS of    *)
(* the distinct characters of the normalized query.                        *)
C3_GateExcludes ==
    Returned =>
        LET q == normalize(query)
        IN  \A a \in 1..Len(result) :
                Cardinality(MissingLetters(q, str_lower(result[a].stem)))
                    <= MAX_MISSING_LETTERS

\* the index returned an accepted file whose stem fails the gate, next to
\* files that made it into the result
C3_Witness ==
    /\ Returned
    /\ result # <<>>
    /\ \E i \in 1..Len(order) :
          Cardinality(MissingLetters(normalize(query), stem_of(order[i].word)))
              > MAX_MISSING_LETTERS

(* C4: the Answer of a FileIdentity reports the highest run count among    *)
(* the candidates of that identity, and its weight is computed from it.    *)
C4_HighestRunCount ==
    Returned =>
        LET scan == Discovered
        IN  \A a \in 1..Len(result) :
                LET same == { i \in 1..Len(scan) :
                                /\ Statable(scan[i].path)
                                /\ Identity(scan[i].path) = Identity(result[a].path) }
                    highest == Max({ scan[i].runs : i \in same })
                IN  /\ result[a].runs = highest
                    /\ \E i \in same :
                          result[a].score = (highest + 1) * (scan[i].score + SCALE)

(* C5: the Answers are in order of non-increasing weight, groups of equal  *)
(* weight in the order of their discovery, and they are the first          *)
(* MAX_RESULTS_COUNT groups of that order.                                 *)
C5_OrderedByWeight ==
    Returned =>
        LET scan == Discovered
            groups == FirstSeen(scan)
            at(a) == CHOOSE i \in groups : Identity(scan[i].path) = Identity(result[a].path)
        IN  /\ Len(result) = Min2(MAX_RESULTS_COUNT, Cardinality(groups))
            /\ \A a \in 1..Len(result) :
                  /\ Statable(result[a].path)
                  /\ \E i \in groups : Identity(scan[i].path) = Identity(result[a].path)
                  /\ result[a].score = GroupWeight(scan, at(a))
            /\ \A a \in 1..(Len(result) - 1) :
                  /\ result[a].score >= result[a + 1].score
                  /\ Before(scan, at(a), at(a + 1))
            /\ \A i \in groups :
                  AnswersOf(scan, i) = {} => Before(scan, at(Len(result)), i)

\* a full result with two Answers of equal weight, and a group left out
C5_Witness ==
    /\ Returned
    /\ Len(result) = MAX_RESULTS_COUNT
    /\ Cardinality(FirstSeen(Discovered)) > MAX_RESULTS_COUNT
    /\ \E a \in 1..(Len(result) - 1) : result[a].score = result[a + 1].score
    /\ \E a \in 1..(Len(result) - 1) : result[a].score > result[a + 1].score

(* C6 as stated: several stat-able paths of one FileIdentity give exactly  *)
(* one Answer, whose path is a shortest of them.                           *)
C6_ExactlyOneShortest ==
    Returned =>
        LET scan == Discovered
        IN  \A i \in FirstSeen(scan) :
                Cardinality(SamePaths(scan, i)) >= 2 =>
                    /\ Cardinality(AnswersOf(scan, i)) = 1
                    /\ \A a \in AnswersOf(scan, i) :
                          \A p \in SamePaths(scan, i) : Len(result[a].path) <= Len(p)

(* C6 as amended: several stat-able paths of one FileIdentity give at most *)
(* one Answer: exactly one when the identity is among the first            *)
(* MAX_RESULTS_COUNT groups by weight and discovery, none otherwise; the   *)
(* path of that Answer is a shortest of the stat-able paths of the         *)
(* identity.                                                               *)
C6_OneShortestIfKept ==
    Returned =>
        LET scan == Discovered
            groups == FirstSeen(scan)
        IN  \A i \in groups :
                Cardinality(SamePaths(scan, i)) >= 2 =>
                    LET rank == Cardinality({ k \in groups : Before(scan, k, i) })
                    IN  /\ Cardinality(AnswersOf(scan, i))
                            = IF rank < MAX_RESULTS_COUNT THEN 1 ELSE 0
                        /\ \A a \in AnswersOf(scan, i) :
                              /\ result[a].path \in SamePaths(scan, i)
                              /\ \A p \in SamePaths(scan, i) :
                                    Len(result[a].path) <= Len(p)

\* an identity discovered through a longer path and then a shorter one,
\* which the Answer shows
C6_Witness ==
    /\ Returned
    /\ LET scan == Discovered
       IN  \E i \in FirstSeen(scan) :
              /\ \E p \in SamePaths(scan, i) : Len(p) < Len(scan[i].path)
              /\ \E a \in AnswersOf(scan, i) : Len(result[a].path) < Len(scan[i].path)

(* C7: the token ratio is a multiplicative factor of the score: a larger   *)
(* ratio never gives a smaller score, and a stem that passes the gate with *)
(* ratio 0 is dropped from the scored set without an error.                *)
C7_TokenRatioFactor ==
    \A i \in 1..Len(order) :
        passes_gate(query, order[i].word) =>
            /\ \A r1, r2 \in 1..100 :
                  r1 < r2 =>
                      apply_ratio(rate_before_ratio(query, stem_of(order[i].word)), r1)
                        <= apply_ratio(rate_before_ratio(query, stem_of(order[i].word)), r2)
            /\ token_sort_ratio(query, order[i].word) = 0 =>
                  /\ error # "ZeroDivisionError"
                  /\ order[i].word \notin { scores[j].word : j \in 1..Len(scores) }

(* C8: the scoring works on the normalized query: raw queries with the     *)
(* same normalized form score the same names with the same scores, so      *)
(* lookup returns the same Answers for them.                               *)
C8_ScoresOfNormalizedQuery ==
    LET normalized == precompute_scores(normalize(query), order)
    IN  scored /\ ~normalized.raised => scores = normalized.scores

(* C9: a query whose normalized length is at most MIN_QUERY_LENGTH gives   *)
(* the empty result without an exception, and neither the index nor the    *)
(* scoring nor stat() is called.                                           *)
C9_ShortQueryEmpty ==
    pc # "idle" /\ Len(normalize(raw)) <= MIN_QUERY_LENGTH =>
        /\ pc \in {"lookup", "done"}
        /\ error = "none"
        /\ ~called
        /\ ~scored
        /\ fs = <<>>
        /\ result = <<>>

(* C10: the filter accepts a path only if it is under no excluded          *)
(* directory and the text after the last '.' of its final component,       *)
(* lowercased, is an enabled extension; a final component without '.' is   *)
(* always rejected.                                                        *)
C10_FilterAcceptsByExtension ==
    \A i \in 1..Len(order) :
        \A k \in 1..Len(order[i].items) :
            LET path == order[i].items[k].path
                name == basename(path)
                dots == { n \in 1..Len(name) : name[n] = "." }
            IN  /\ ~startswith(str_lower(path), WINDOWS_SXS_REPOSITORY)
                /\ ~startswith(str_lower(path), WINDOWS_CONTAINERS_LAYERS)
                /\ dots # {}
                /\ str_lower(SubSeq(name, Max(dots) + 1, Len(name))) \in ENABLED_EXTENSIONS

(* C11: a query the alternate-layout detector accepts (non-empty, every    *)
(* character a letter of the alternate alphabet in either case) is mapped  *)
(* character by character without an exception: the query handed on has    *)
(* the same length and no letter of the alternate alphabet; any other      *)
(* query is handed on unchanged.                                           *)
C11_TranslateAccepted ==
    pc # "idle" =>
        IF IsCyrillic(raw)
        THEN /\ error # "KeyError"
             /\ Len(query) = Len(raw)
             /\ \A i \in 1..Len(query) : query[i] \notin RU_ANY_CASE
        ELSE query = raw

====
